---- MODULE Spec2Model ----
(***************************************************************************)
(* Model of cogs/autorole.py: the AutoRoleManager (live autorole lists of  *)
(* every guild, kept in memory and in db/autorole.json) and its template   *)
(* catalog (db/autorole_templates.json).                                   *)
(***************************************************************************)
EXTENDS Integers, Sequences, FiniteSets, TLC

VARIABLES
    data,          \* AutoRoleManager.data: guild_id -> [humans, bots]
    configFile,    \* db/autorole.json
    templateFile,  \* db/autorole_templates.json
    issued,        \* number of uuid4 values generated so far
    saved,         \* history: template id -> the guild and lists its save captured
    calls,         \* number of manager calls made in this run
    last,          \* the most recent manager call and what it returned
    again,         \* history: the most recent call repeated the call before it
    running,       \* the bot process is up and holds an AutoRoleManager
    callBound,     \* the number of manager calls explored in this run
    join,          \* the on_member_join handler of the member that joined
    sessions       \* the RoleSelectViews opened by setup_roles, in order of opening

vars ==
    <<data, configFile, templateFile, issued, saved, calls, last, again, running,
      callBound, join, sessions>>

-----------------------------------------------------------------------------
(* Program constants *)

MaxHumans == 5
MaxBots == 2
MaxTemplates == 10

(* Bounds of the model *)

\* manager calls explored from the start of the run
MaxCalls == 4
\* the same, in runs where writes may fail
MaxFaultCalls == 2
\* the same, in runs where a member joins
MaxJoinCalls == 1
\* the same, in runs with role-setup sessions
MaxSetupCalls == 4
\* role-setup sessions opened in a run
MaxSessions == 2
\* templates the template file already holds for guild "1" at the start
BaseTemplateCount == 9

Guilds == {"1", "2"}
RoleTypes == {"humans", "bots"}
\* role ids offered to add_role (not yet in the lists earlier runs left)
AddIds == {50, 60}
\* role ids offered to remove_role (one of the lists earlier runs left, one not)
RemoveIds == {10, 50}
\* the role ids of the calls
RoleIds == AddIds \cup RemoveIds
\* names offered to save_template (the templates of earlier runs are named "n")
TemplateNames == {"m"}
\* template ids offered to load_template / delete_template
TemplateIdInputs == {1, BaseTemplateCount + 1, BaseTemplateCount + 2}

-----------------------------------------------------------------------------
(* Values *)

EmptyMap == [k \in {} |-> 0]

\* lambda: {"humans": [], "bots": []}
DefaultEntry == [humans |-> <<>>, bots |-> <<>>]

Range(s) == {s[i] : i \in 1..Len(s)}

\* Python "r in list"
Contains(s, r) == r \in Range(s)

ListRemoveHead(s, r) == Tail(s)

\* Python list.remove(r): drops the first occurrence of r
ListRemove(s, r) ==
    LET i == CHOOSE j \in 1..Len(s) : s[j] = r /\ \A k \in 1..(j - 1) : s[k] # r
    IN  SubSeq(s, 1, i - 1) \o SubSeq(s, i + 1, Len(s))

\* Python "del d[k]"
DelKey(d, k) == [x \in (DOMAIN d) \ {k} |-> d[x]]

\* Python "d[k] = v"
SetKey(d, k, v) == [x \in (DOMAIN d) \cup {k} |-> IF x = k THEN v ELSE d[x]]

\* defaultdict.__getitem__: a missing guild gets a fresh default entry
Materialize(d, g) == IF g \in DOMAIN d THEN d ELSE SetKey(d, g, DefaultEntry)

\* A file is missing, or holds one JSON document, or is torn: what
\* open(path, 'w') leaves (an empty file) until json.dump has written it all
NoFile == [exists |-> FALSE, torn |-> FALSE, doc |-> EmptyMap]

\* open(path, 'w') + json.dump(doc, f, indent=4), completed
JsonDump(doc) == [exists |-> TRUE, torn |-> FALSE, doc |-> doc]

\* open(path, 'w') and then less than the whole document: no prefix of a
\* dumped document is a JSON document
Torn == [exists |-> TRUE, torn |-> TRUE, doc |-> EmptyMap]

\* json.load(f) does not raise JSONDecodeError
Parses(file) == ~file.torn

\* json.load(f) of an existing file
JsonLoad(file) == file.doc

MaxRolesHumansOnly(role_type) == MaxHumans

\* max_roles = 5 if role_type == "humans" else 2
MaxRoles(role_type) == IF role_type = "humans" THEN MaxHumans ELSE MaxBots

\* the live list of (g, role_type) as get_roles would return it
Roles(d, g, role_type) == Materialize(d, g)[g][role_type]

\* templates read by save_template: a missing file is {}
ReadTemplatesOrEmpty(file) == IF file.exists THEN JsonLoad(file) ELSE EmptyMap

\* the catalog of guild g in a template file (empty when unknown)
Catalog(file, g) ==
    IF file.exists /\ g \in DOMAIN JsonLoad(file) THEN JsonLoad(file)[g] ELSE EmptyMap

-----------------------------------------------------------------------------
(* The call record: ret is what the call returned ("None", "True", "False",  *)
(* "list", "id") or raised ("RoleLimit"); val is the number that came with *)
(* it (max_roles, or the template id returned).                            *)

NoArgs ==
    [guild_id |-> "", role_type |-> "", role_id |-> 0, template_id |-> 0, name |-> ""]

Call(op, args, ret, val) ==
    [op |-> op, guild_id |-> args.guild_id, role_type |-> args.role_type,
     role_id |-> args.role_id, template_id |-> args.template_id,
     name |-> args.name, ret |-> ret, val |-> val]

\* two call records are calls of one operation with the same arguments
SameCall(a, b) ==
    /\ a.op = b.op
    /\ a.guild_id = b.guild_id
    /\ a.role_type = b.role_type
    /\ a.role_id = b.role_id
    /\ a.template_id = b.template_id
    /\ a.name = b.name

\* on_member_join: whether the member is a bot, the roles list it iterates
\* (the list object of self.data while attached, else the object it was
\* given, own), the iterator's position idx, the role whose add_roles it
\* awaits (cur), the roles guild.get_role does not find (gone) and its
\* attempts so far (log); start, removed and disturbed are history
NoJoin ==
    [phase |-> "idle", guild_id |-> "", bot |-> FALSE, role_type |-> "",
     gone |-> {}, attached |-> FALSE, own |-> <<>>, idx |-> 0, cur |-> 0,
     log |-> <<>>, start |-> <<>>, removed |-> {}, disturbed |-> FALSE]

\* the list object the handler iterates
JoinList(j, d) == IF j.attached THEN d[j.guild_id][j.role_type] ELSE j.own

\* what a manager call that returns does to the list a suspended handler
\* iterates: append and remove change it in place, "del self.data[guild_id]"
\* and the assignments of load_template leave the handler its old list object
Seen(j, call) ==
    IF j.phase # "awaiting" \/ ~j.attached \/ call.guild_id # j.guild_id
    THEN j
    ELSE LET roles == data[j.guild_id][j.role_type]
         IN  IF call.op = "reset_guild"
                \/ (call.op = "load_template" /\ call.ret = "True")
             THEN [j EXCEPT !.attached = FALSE, !.own = roles]
             ELSE IF /\ call.op = "remove_role"
                     /\ call.role_type = j.role_type
                     /\ Contains(roles, call.role_id)
                  THEN [j EXCEPT !.removed = @ \cup {call.role_id},
                                 !.disturbed = TRUE]
                  ELSE IF /\ call.op = "add_role"
                          /\ call.ret = "None"
                          /\ call.role_type = j.role_type
                          /\ ~Contains(roles, call.role_id)
                       THEN [j EXCEPT !.disturbed = TRUE]
                       ELSE j

\* a call is made and returns
Recorded(call) ==
    /\ running
    /\ running' = running
    /\ calls < callBound
    /\ callBound' = callBound
    /\ last' = call
    /\ calls' = calls + 1
    /\ again' = SameCall(call, last)

\* a manager call made by one of the views, modals and commands is made and
\* returns
Returned(call) ==
    /\ Recorded(call)
    /\ join' = Seen(join, call)
    /\ sessions' = sessions

-----------------------------------------------------------------------------
(* Documents left on disk by earlier runs *)

BaseConfig ==
    SetKey(EmptyMap, "1", [humans |-> <<10, 20, 30, 40>>, bots |-> <<10>>])

BaseTemplate == [name |-> "n", humans |-> <<10, 20>>, bots |-> <<>>]

BaseTemplates ==
    SetKey(EmptyMap, "1", [i \in 1..BaseTemplateCount |-> BaseTemplate])

\* load_data: a missing file leaves the fresh, empty defaultdict
LoadedData(file) == IF file.exists THEN JsonLoad(file) ELSE EmptyMap

\* AutoRole.__init__: AutoRoleManager() then load_data(), on a first run (no
\* files) or on the files an earlier run left
Constructed ==
    /\ \/ /\ configFile = NoFile
          /\ templateFile = NoFile
          /\ issued = 0
          /\ saved = EmptyMap
       \/ /\ configFile = JsonDump(BaseConfig)
          /\ templateFile = JsonDump(BaseTemplates)
          /\ issued = BaseTemplateCount
          /\ saved = [i \in 1..BaseTemplateCount |->
                         [guild_id |-> "1", name |-> BaseTemplate.name,
                          humans |-> BaseTemplate.humans,
                          bots |-> BaseTemplate.bots]]
    /\ data = LoadedData(configFile)
    /\ calls = 0
    /\ last = Call("init", NoArgs, "None", 0)
    /\ again = FALSE
    /\ running = TRUE
    /\ join = NoJoin
    /\ sessions = <<>>

Init ==
    /\ Constructed
    /\ callBound = MaxCalls

-----------------------------------------------------------------------------
(* AutoRoleManager *)

\* save_data
SaveData(d) == JsonDump(d)

AtLimitOffByOne(d, g, role_type) == Len(Roles(d, g, role_type)) > MaxRoles(role_type)

\* check_role_limit, first component: len(current_roles) >= max_roles
AtLimit(d, g, role_type) == Len(Roles(d, g, role_type)) >= MaxRoles(role_type)

\* check_role_limit; reading self.data[guild_id] materializes the entry
CheckRoleLimit(g, role_type) ==
    /\ data' = Materialize(data, g)
    /\ Returned(Call("check_role_limit",
                     [NoArgs EXCEPT !.guild_id = g, !.role_type = role_type],
                     IF AtLimit(data, g, role_type) THEN "True" ELSE "False",
                     MaxRoles(role_type)))
    /\ UNCHANGED <<configFile, templateFile, issued, saved>>

\* get_roles
GetRoles(g, role_type) ==
    /\ data' = Materialize(data, g)
    /\ Returned(Call("get_roles",
                     [NoArgs EXCEPT !.guild_id = g, !.role_type = role_type],
                     "list", 0))
    /\ UNCHANGED <<configFile, templateFile, issued, saved>>

AddedListNoCheck(s, r) == Append(s, r)

AddedListInFront(s, r) == IF Contains(s, r) THEN s ELSE <<r>> \o s

\* add_role, the list after the call when the limit check passed
AddedList(s, r) == IF Contains(s, r) THEN s ELSE Append(s, r)

\* add_role
AddRole(g, role_type, r) ==
    LET d1 == Materialize(data, g)
        args == [NoArgs EXCEPT !.guild_id = g, !.role_type = role_type, !.role_id = r]
    IN  IF AtLimit(data, g, role_type)
        THEN /\ data' = d1
             /\ Returned(Call("add_role", args, "RoleLimit", MaxRoles(role_type)))
             /\ UNCHANGED <<configFile, templateFile, issued, saved>>
        ELSE /\ data' = [d1 EXCEPT ![g][role_type] = AddedList(@, r)]
             /\ configFile' = IF Contains(d1[g][role_type], r)
                              THEN configFile
                              ELSE SaveData(data')
             /\ Returned(Call("add_role", args, "None", 0))
             /\ UNCHANGED <<templateFile, issued, saved>>

RemoveRoleWithoutSave(g, role_type, r) ==
    LET d1 == Materialize(data, g)
        args == [NoArgs EXCEPT !.guild_id = g, !.role_type = role_type, !.role_id = r]
    IN  /\ Returned(Call("remove_role", args, "None", 0))
        /\ data' = IF Contains(d1[g][role_type], r)
                   THEN [d1 EXCEPT ![g][role_type] = ListRemove(@, r)]
                   ELSE d1
        /\ UNCHANGED <<configFile, templateFile, issued, saved>>

\* remove_role
RemoveRole(g, role_type, r) ==
    LET d1 == Materialize(data, g)
        args == [NoArgs EXCEPT !.guild_id = g, !.role_type = role_type, !.role_id = r]
    IN  /\ Returned(Call("remove_role", args, "None", 0))
        /\ IF Contains(d1[g][role_type], r)
           THEN /\ data' = [d1 EXCEPT ![g][role_type] = ListRemove(@, r)]
                /\ configFile' = SaveData(data')
                /\ UNCHANGED <<templateFile, issued, saved>>
           ELSE /\ data' = d1
                /\ UNCHANGED <<configFile, templateFile, issued, saved>>

ResetGuildClearsAll(g) ==
    /\ Returned(Call("reset_guild", [NoArgs EXCEPT !.guild_id = g], "None", 0))
    /\ IF g \in DOMAIN data
       THEN /\ data' = EmptyMap
            /\ configFile' = SaveData(data')
            /\ UNCHANGED <<templateFile, issued, saved>>
       ELSE UNCHANGED <<data, configFile, templateFile, issued, saved>>

ResetGuildKeepsEntry(g) ==
    /\ Returned(Call("reset_guild", [NoArgs EXCEPT !.guild_id = g], "None", 0))
    /\ IF g \in DOMAIN data
       THEN /\ data' = SetKey(data, g, DefaultEntry)
            /\ configFile' = SaveData(data')
            /\ UNCHANGED <<templateFile, issued, saved>>
       ELSE UNCHANGED <<data, configFile, templateFile, issued, saved>>

\* reset_guild
ResetGuild(g) ==
    /\ Returned(Call("reset_guild", [NoArgs EXCEPT !.guild_id = g], "None", 0))
    /\ IF g \in DOMAIN data
       THEN /\ data' = DelKey(data, g)
            /\ configFile' = SaveData(data')
            /\ UNCHANGED <<templateFile, issued, saved>>
       ELSE UNCHANGED <<data, configFile, templateFile, issued, saved>>

CatalogFullOffByOne(catalog) == Cardinality(DOMAIN catalog) > MaxTemplates

\* save_template, the capacity check: len(templates[guild_id]) >= 10
CatalogFull(catalog) == Cardinality(DOMAIN catalog) >= MaxTemplates

SnapshotHumansOnly(d, g, name) == [name |-> name, humans |-> d[g].humans, bots |-> <<>>]

\* save_template, the template built from the live lists
Snapshot(d, g, name) == [name |-> name, humans |-> d[g].humans, bots |-> d[g].bots]

\* save_template; uuid4 makes an id no earlier call has made
SaveTemplate(g, name) ==
    LET id == issued + 1
        d1 == Materialize(data, g)
        templates == ReadTemplatesOrEmpty(templateFile)
        catalog == IF g \in DOMAIN templates THEN templates[g] ELSE EmptyMap
        args == [NoArgs EXCEPT !.guild_id = g, !.name = name]
    IN  /\ Parses(templateFile)
        /\ issued' = id
        /\ data' = d1
        /\ UNCHANGED configFile
        /\ IF CatalogFull(catalog)
           THEN /\ Returned(Call("save_template", args, "None", 0))
                /\ UNCHANGED <<templateFile, saved>>
           ELSE /\ templateFile' =
                       JsonDump(SetKey(templates, g,
                                       SetKey(catalog, id, Snapshot(d1, g, name))))
                /\ saved' = SetKey(saved, id,
                                   [guild_id |-> g, name |-> name,
                                    humans |-> Roles(data, g, "humans"),
                                    bots |-> Roles(data, g, "bots")])
                /\ Returned(Call("save_template", args, "id", id))

\* load_template / delete_template: the template file has template_id for guild_id
Known(file, g, template_id) == template_id \in DOMAIN Catalog(file, g)

\* the guilds whose catalog holds template_id
Owners(file, template_id) == {h \in Guilds : template_id \in DOMAIN Catalog(file, h)}

LoadTemplateOfAnyGuild(g, template_id) ==
    LET args == [NoArgs EXCEPT !.guild_id = g, !.template_id = template_id]
    IN  IF Owners(templateFile, template_id) = {}
        THEN /\ Returned(Call("load_template", args, "False", 0))
             /\ UNCHANGED <<data, configFile, templateFile, issued, saved>>
        ELSE LET owner == CHOOSE h \in Owners(templateFile, template_id) : TRUE
                 template == JsonLoad(templateFile)[owner][template_id]
                 d1 == Materialize(data, g)
             IN  /\ data' = [d1 EXCEPT ![g].humans = template.humans,
                                       ![g].bots = template.bots]
                 /\ configFile' = SaveData(data')
                 /\ Returned(Call("load_template", args, "True", 0))
                 /\ UNCHANGED <<templateFile, issued, saved>>

\* load_template
LoadTemplate(g, template_id) ==
    LET args == [NoArgs EXCEPT !.guild_id = g, !.template_id = template_id]
    IN  /\ Parses(templateFile)
        /\ IF ~Known(templateFile, g, template_id)
           THEN /\ Returned(Call("load_template", args, "False", 0))
                /\ UNCHANGED <<data, configFile, templateFile, issued, saved>>
           ELSE LET template == JsonLoad(templateFile)[g][template_id]
                    d1 == Materialize(data, g)
                IN  /\ data' = [d1 EXCEPT ![g].humans = template.humans,
                                          ![g].bots = template.bots]
                    /\ configFile' = SaveData(data')
                    /\ Returned(Call("load_template", args, "True", 0))
                    /\ UNCHANGED <<templateFile, issued, saved>>

DeleteTemplateClearsCatalog(g, template_id) ==
    LET args == [NoArgs EXCEPT !.guild_id = g, !.template_id = template_id]
    IN  /\ saved' = IF template_id \in DOMAIN saved /\ saved[template_id].guild_id = g
                    THEN DelKey(saved, template_id)
                    ELSE saved
        /\ UNCHANGED <<data, configFile, issued>>
        /\ IF ~Known(templateFile, g, template_id)
           THEN /\ Returned(Call("delete_template", args, "False", 0))
                /\ UNCHANGED templateFile
           ELSE LET templates == JsonLoad(templateFile)
                IN  /\ templateFile' = JsonDump([templates EXCEPT ![g] = EmptyMap])
                    /\ Returned(Call("delete_template", args, "True", 0))

\* delete_template
DeleteTemplate(g, template_id) ==
    LET args == [NoArgs EXCEPT !.guild_id = g, !.template_id = template_id]
    IN  /\ Parses(templateFile)
        /\ saved' = IF template_id \in DOMAIN saved /\ saved[template_id].guild_id = g
                    THEN DelKey(saved, template_id)
                    ELSE saved
        /\ UNCHANGED <<data, configFile, issued>>
        /\ IF ~Known(templateFile, g, template_id)
           THEN /\ Returned(Call("delete_template", args, "False", 0))
                /\ UNCHANGED templateFile
           ELSE LET templates == JsonLoad(templateFile)
                IN  /\ templateFile' =
                           JsonDump([templates EXCEPT ![g] = DelKey(@, template_id)])
                    /\ Returned(Call("delete_template", args, "True", 0))

ListedTemplatesOfAll(file, g) ==
    UNION {{[id |-> id, name |-> Catalog(file, h)[id].name,
             humans |-> Catalog(file, h)[id].humans,
             bots |-> Catalog(file, h)[id].bots] : id \in DOMAIN Catalog(file, h)}
           : h \in Guilds}

\* list_templates, its result (the entries, in no order)
ListedTemplates(file, g) ==
    {[id |-> id, name |-> Catalog(file, g)[id].name,
      humans |-> Catalog(file, g)[id].humans,
      bots |-> Catalog(file, g)[id].bots] : id \in DOMAIN Catalog(file, g)}

\* list_templates
ListTemplates(g) ==
    /\ Parses(templateFile)
    /\ Returned(Call("list_templates", [NoArgs EXCEPT !.guild_id = g], "list", 0))
    /\ UNCHANGED <<data, configFile, templateFile, issued, saved>>

\* the process stops and starts again: AutoRole.__init__ on the files as they are
Restart ==
    /\ Parses(configFile)
    /\ data' = LoadedData(configFile)
    /\ Returned(Call("load_data", NoArgs, "None", 0))
    /\ UNCHANGED <<configFile, templateFile, issued, saved>>

Next ==
    \/ \E g \in Guilds, t \in RoleTypes : CheckRoleLimit(g, t)
    \/ \E g \in Guilds, t \in RoleTypes : GetRoles(g, t)
    \/ \E g \in Guilds, t \in RoleTypes, r \in AddIds : AddRole(g, t, r)
    \/ \E g \in Guilds, t \in RoleTypes, r \in RemoveIds : RemoveRole(g, t, r)
    \/ \E g \in Guilds : ResetGuild(g)
    \/ \E g \in Guilds, name \in TemplateNames : SaveTemplate(g, name)
    \/ \E g \in Guilds, id \in TemplateIdInputs : LoadTemplate(g, id)
    \/ \E g \in Guilds, id \in TemplateIdInputs : DeleteTemplate(g, id)
    \/ \E g \in Guilds : ListTemplates(g)
    \/ Restart

Spec == Init /\ [][Next]_vars

-----------------------------------------------------------------------------
(* Writes that do not complete. save_data, save_template and delete_template *)
(* rewrite their file with open(path, 'w') + json.dump, outside any try:   *)
(* open may be refused (the file stays as it was), the dump may fail after  *)
(* open has truncated the file, or the process may stop in between; the     *)
(* in-memory change of the operation has been made by then.                 *)

WriteOutcomes == {"refused", "cut", "stopped"}

\* the file a write that did not complete leaves
FailedWrite(file, outcome) == IF outcome = "refused" THEN file ELSE Torn

\* self.data after the write: a stopped process has none
Memory(d, outcome) == IF outcome = "stopped" THEN EmptyMap ELSE d

WriteFailedSwallowed(call, outcome) ==
    /\ running
    /\ running' = (outcome # "stopped")
    /\ join' = join
    /\ sessions' = sessions
    /\ calls < callBound
    /\ callBound' = callBound
    /\ calls' = calls + 1
    /\ again' = SameCall(call, last)
    /\ last' = call

\* the call does not return: OSError leaves it, or the process has stopped
WriteFailed(call, outcome) ==
    /\ running
    /\ running' = (outcome # "stopped")
    /\ join' = join
    /\ sessions' = sessions
    /\ calls < callBound
    /\ callBound' = callBound
    /\ calls' = calls + 1
    /\ again' = SameCall(call, last)
    /\ last' = [call EXCEPT !.ret = IF outcome = "stopped" THEN "stopped" ELSE "OSError",
                            !.val = 0]

\* add_role, save_data fails
AddRoleWriteFails(g, role_type, r, outcome) ==
    LET d1 == Materialize(data, g)
        args == [NoArgs EXCEPT !.guild_id = g, !.role_type = role_type, !.role_id = r]
    IN  /\ ~AtLimit(data, g, role_type)
        /\ ~Contains(d1[g][role_type], r)
        /\ data' = Memory([d1 EXCEPT ![g][role_type] = AddedList(@, r)], outcome)
        /\ configFile' = FailedWrite(configFile, outcome)
        /\ WriteFailed(Call("add_role", args, "None", 0), outcome)
        /\ UNCHANGED <<templateFile, issued, saved>>

\* remove_role, save_data fails
RemoveRoleWriteFails(g, role_type, r, outcome) ==
    LET d1 == Materialize(data, g)
        args == [NoArgs EXCEPT !.guild_id = g, !.role_type = role_type, !.role_id = r]
    IN  /\ Contains(d1[g][role_type], r)
        /\ data' = Memory([d1 EXCEPT ![g][role_type] = ListRemove(@, r)], outcome)
        /\ configFile' = FailedWrite(configFile, outcome)
        /\ WriteFailed(Call("remove_role", args, "None", 0), outcome)
        /\ UNCHANGED <<templateFile, issued, saved>>

\* reset_guild, save_data fails
ResetGuildWriteFails(g, outcome) ==
    /\ g \in DOMAIN data
    /\ data' = Memory(DelKey(data, g), outcome)
    /\ configFile' = FailedWrite(configFile, outcome)
    /\ WriteFailed(Call("reset_guild", [NoArgs EXCEPT !.guild_id = g], "None", 0), outcome)
    /\ UNCHANGED <<templateFile, issued, saved>>

\* load_template, save_data fails
LoadTemplateWriteFails(g, template_id, outcome) ==
    LET args == [NoArgs EXCEPT !.guild_id = g, !.template_id = template_id]
        template == JsonLoad(templateFile)[g][template_id]
        d1 == Materialize(data, g)
    IN  /\ Parses(templateFile)
        /\ Known(templateFile, g, template_id)
        /\ data' = Memory([d1 EXCEPT ![g].humans = template.humans,
                                     ![g].bots = template.bots], outcome)
        /\ configFile' = FailedWrite(configFile, outcome)
        /\ WriteFailed(Call("load_template", args, "True", 0), outcome)
        /\ UNCHANGED <<templateFile, issued, saved>>

\* save_template, the write of the template file fails
SaveTemplateWriteFails(g, name, outcome) ==
    LET id == issued + 1
        templates == ReadTemplatesOrEmpty(templateFile)
        catalog == IF g \in DOMAIN templates THEN templates[g] ELSE EmptyMap
        args == [NoArgs EXCEPT !.guild_id = g, !.name = name]
    IN  /\ Parses(templateFile)
        /\ ~CatalogFull(catalog)
        /\ issued' = id
        /\ data' = Memory(Materialize(data, g), outcome)
        /\ templateFile' = FailedWrite(templateFile, outcome)
        /\ WriteFailed(Call("save_template", args, "id", id), outcome)
        /\ UNCHANGED <<configFile, saved>>

\* delete_template, the write of the template file fails
DeleteTemplateWriteFails(g, template_id, outcome) ==
    LET args == [NoArgs EXCEPT !.guild_id = g, !.template_id = template_id]
    IN  /\ Parses(templateFile)
        /\ Known(templateFile, g, template_id)
        /\ data' = Memory(data, outcome)
        /\ templateFile' = FailedWrite(templateFile, outcome)
        /\ WriteFailed(Call("delete_template", args, "True", 0), outcome)
        /\ UNCHANGED <<configFile, issued, saved>>

TemplateReaders == {"save_template", "load_template", "delete_template", "list_templates"}

\* a template operation finds a torn template file: json.load raises
\* JSONDecodeError, which only "except FileNotFoundError" stands against
\* (save_template has made its uuid and read self.data[guild_id] by then)
TemplatesUnreadable(op, g, template_id, name) ==
    LET args == IF op = "save_template"
                THEN [NoArgs EXCEPT !.guild_id = g, !.name = name]
                ELSE IF op = "list_templates"
                     THEN [NoArgs EXCEPT !.guild_id = g]
                     ELSE [NoArgs EXCEPT !.guild_id = g, !.template_id = template_id]
    IN  /\ ~Parses(templateFile)
        /\ issued' = IF op = "save_template" THEN issued + 1 ELSE issued
        /\ data' = IF op = "save_template" THEN Materialize(data, g) ELSE data
        /\ Returned(Call(op, args, "JSONDecodeError", 0))
        /\ UNCHANGED <<configFile, templateFile, saved>>

\* the process is started after it stopped in a write, or with a torn
\* configuration file: load_data catches FileNotFoundError only, so
\* AutoRole.__init__ raises on a torn file and no manager exists
Start ==
    /\ ~running \/ ~Parses(configFile)
    /\ join' = join
    /\ sessions' = sessions
    /\ calls < callBound
    /\ callBound' = callBound
    /\ calls' = calls + 1
    /\ again' = FALSE
    /\ running' = Parses(configFile)
    /\ data' = IF Parses(configFile) THEN LoadedData(configFile) ELSE EmptyMap
    /\ last' = Call("load_data", NoArgs,
                    IF Parses(configFile) THEN "None" ELSE "JSONDecodeError", 0)
    /\ UNCHANGED <<configFile, templateFile, issued, saved>>

FaultNext ==
    \/ \E g \in Guilds, t \in RoleTypes : CheckRoleLimit(g, t)
    \/ \E g \in Guilds, t \in RoleTypes : GetRoles(g, t)
    \/ \E g \in Guilds, t \in RoleTypes, r \in AddIds : AddRole(g, t, r)
    \/ \E g \in Guilds, t \in RoleTypes, r \in RemoveIds : RemoveRole(g, t, r)
    \/ \E g \in Guilds : ResetGuild(g)
    \/ \E g \in Guilds, name \in TemplateNames : SaveTemplate(g, name)
    \/ \E g \in Guilds, id \in TemplateIdInputs : LoadTemplate(g, id)
    \/ \E g \in Guilds, id \in TemplateIdInputs : DeleteTemplate(g, id)
    \/ \E g \in Guilds : ListTemplates(g)
    \/ Restart
    \/ \E g \in Guilds, t \in RoleTypes, r \in AddIds, o \in WriteOutcomes :
          AddRoleWriteFails(g, t, r, o)
    \/ \E g \in Guilds, t \in RoleTypes, r \in RemoveIds, o \in WriteOutcomes :
          RemoveRoleWriteFails(g, t, r, o)
    \/ \E g \in Guilds, o \in WriteOutcomes : ResetGuildWriteFails(g, o)
    \/ \E g \in Guilds, id \in TemplateIdInputs, o \in WriteOutcomes :
          LoadTemplateWriteFails(g, id, o)
    \/ \E g \in Guilds, name \in TemplateNames, o \in WriteOutcomes :
          SaveTemplateWriteFails(g, name, o)
    \/ \E g \in Guilds, id \in TemplateIdInputs, o \in WriteOutcomes :
          DeleteTemplateWriteFails(g, id, o)
    \/ \E op \in TemplateReaders, g \in Guilds, id \in TemplateIdInputs,
          name \in TemplateNames : TemplatesUnreadable(op, g, id, name)
    \/ Start

FaultInit ==
    /\ Constructed
    /\ callBound = MaxFaultCalls

\* the manager with writes that may fail and a process that may stop in them
FaultSpec == FaultInit /\ [][FaultNext]_vars

-----------------------------------------------------------------------------
(* AutoRole.on_member_join. The handler runs from one await to the next    *)
(* without interruption; manager calls run while it is suspended in        *)
(* member.add_roles.                                                        *)

\* sets of roles the guild no longer has when a member joins
GoneSets == {{}, {20}, {10, 30}}

\* results of "await member.add_roles(...)"
ApplyOutcomes == {"ok", "HTTPException"}

\* "for role_id in roles" from the iterator's position on list L: roles that
\* guild.get_role does not find are passed over, the first one found is
\* awaited; the loop ends when the position has reached the end of L
Iterate(j, L) ==
    LET found == {i \in (j.idx + 1)..Len(L) : L[i] \notin j.gone}
    IN  IF found = {}
        THEN [j EXCEPT !.phase = "done", !.cur = 0]
        ELSE LET i == CHOOSE k \in found : \A m \in found : k <= m
             IN  [j EXCEPT !.phase = "awaiting", !.idx = i, !.cur = L[i]]

AfterAwaitAborts(j, outcome, L) ==
    IF outcome = "HTTPException"
    THEN [j EXCEPT !.log = Append(@, [role |-> j.cur, outcome |-> outcome]),
                   !.phase = "done", !.cur = 0]
    ELSE Iterate([j EXCEPT !.log = Append(@, [role |-> j.cur, outcome |-> outcome])], L)

\* add_roles has returned or raised HTTPException ("except: pass"): the loop
\* goes on
AfterAwait(j, outcome, L) ==
    Iterate([j EXCEPT !.log = Append(@, [role |-> j.cur, outcome |-> outcome])], L)

\* on_member_join up to its first await
MemberJoin(g, bot, gone) ==
    LET role_type == IF bot THEN "bots" ELSE "humans"
        d1 == Materialize(data, g)
    IN  /\ running
        /\ join.phase = "idle"
        /\ data' = d1
        /\ join' = Iterate([NoJoin EXCEPT !.guild_id = g, !.bot = bot,
                                          !.role_type = role_type, !.gone = gone,
                                          !.attached = TRUE,
                                          !.start = d1[g][role_type]],
                           d1[g][role_type])
        /\ UNCHANGED <<configFile, templateFile, issued, saved, calls, last, again,
                       running, callBound, sessions>>

\* on_member_join from the return of add_roles to its next await or its end
ApplyReturns(outcome) ==
    /\ running
    /\ join.phase = "awaiting"
    /\ join' = AfterAwait(join, outcome, JoinList(join, data))
    /\ UNCHANGED <<data, configFile, templateFile, issued, saved, calls, last, again,
                   running, callBound, sessions>>

JoinNext ==
    \/ \E g \in Guilds, t \in RoleTypes : CheckRoleLimit(g, t)
    \/ \E g \in Guilds, t \in RoleTypes : GetRoles(g, t)
    \/ \E g \in Guilds, t \in RoleTypes, r \in AddIds : AddRole(g, t, r)
    \/ \E g \in Guilds, t \in RoleTypes, r \in RemoveIds : RemoveRole(g, t, r)
    \/ \E g \in Guilds : ResetGuild(g)
    \/ \E g \in Guilds, name \in TemplateNames : SaveTemplate(g, name)
    \/ \E g \in Guilds, id \in TemplateIdInputs : LoadTemplate(g, id)
    \/ \E g \in Guilds, id \in TemplateIdInputs : DeleteTemplate(g, id)
    \/ \E g \in Guilds : ListTemplates(g)
    \/ \E g \in Guilds, bot \in BOOLEAN, gone \in GoneSets : MemberJoin(g, bot, gone)
    \/ \E o \in ApplyOutcomes : ApplyReturns(o)

JoinInit ==
    /\ Constructed
    /\ callBound = MaxJoinCalls

\* one run of the process in which a member joins; an awaited add_roles
\* returns or raises in the end
JoinSpec ==
    /\ JoinInit
    /\ [][JoinNext]_vars
    /\ WF_vars(\E o \in ApplyOutcomes : ApplyReturns(o))

-----------------------------------------------------------------------------
(* AutoroleView.setup_roles and RoleSelect.callback. setup_roles checks the *)
(* limit and opens a RoleSelectView; the callback of its select runs later, *)
(* after any number of other calls, and makes its add_role calls without an *)
(* await between them.                                                      *)

\* self.values of a RoleSelect: distinct options, in the order chosen
Selections == {<<50>>, <<60>>, <<50, 60>>, <<60, 10, 50>>}

RECURSIVE AppendAll(_, _)
AppendAll(s, values) ==
    IF values = <<>> THEN s ELSE AppendAll(AddedList(s, Head(values)), Tail(values))

AddAllCheckedOnce(d, g, role_type, values) ==
    LET d1 == Materialize(d, g)
    IN  IF AtLimit(d, g, role_type)
        THEN [data |-> d1, raised |-> TRUE, roles |-> <<>>, wrote |-> FALSE]
        ELSE [data |-> [d1 EXCEPT ![g][role_type] = AppendAll(@, values)],
              raised |-> FALSE, roles |-> values, wrote |-> TRUE]

\* the loop of RoleSelect.callback: add_role for each selected role, until one
\* raises RoleLimit; roles is what it appends to view.roles, wrote tells
\* whether some add_role called save_data
RECURSIVE AddAll(_, _, _, _)
AddAll(d, g, role_type, values) ==
    LET d1 == Materialize(d, g)
    IN  IF values = <<>>
        THEN [data |-> d, raised |-> FALSE, roles |-> <<>>, wrote |-> FALSE]
        ELSE IF AtLimit(d, g, role_type)
             THEN [data |-> d1, raised |-> TRUE, roles |-> <<>>, wrote |-> FALSE]
             ELSE LET r == Head(values)
                      rest == AddAll([d1 EXCEPT ![g][role_type] = AddedList(@, r)],
                                     g, role_type, Tail(values))
                  IN  [rest EXCEPT !.roles = <<r>> \o @,
                                   !.wrote = @ \/ ~Contains(d1[g][role_type], r)]

\* setup_roles up to its "await view.wait()"; seen is history, the length
\* check_role_limit found
SetupRoles(g, role_type) ==
    LET args == [NoArgs EXCEPT !.guild_id = g, !.role_type = role_type]
    IN  /\ Len(sessions) < MaxSessions
        /\ data' = Materialize(data, g)
        /\ IF AtLimit(data, g, role_type)
           THEN /\ sessions' = sessions
                /\ Recorded(Call("setup_roles", args, "RoleLimit", MaxRoles(role_type)))
           ELSE /\ sessions' = Append(sessions,
                                      [guild_id |-> g, role_type |-> role_type,
                                       max_roles |-> MaxRoles(role_type),
                                       open |-> TRUE, roles |-> <<>>,
                                       refused |-> FALSE,
                                       seen |-> Len(Roles(data, g, role_type))])
                /\ Recorded(Call("setup_roles", args, "view", MaxRoles(role_type)))
        /\ join' = join
        /\ UNCHANGED <<configFile, templateFile, issued, saved>>

\* RoleSelect.callback of session i; after RoleLimit the view is not stopped
RoleSelectCallback(i, values) ==
    /\ i \in DOMAIN sessions
    /\ sessions[i].open
    /\ Len(values) <= sessions[i].max_roles
    /\ LET g == sessions[i].guild_id
           role_type == sessions[i].role_type
           res == AddAll(data, g, role_type, values)
       IN  /\ data' = res.data
           /\ configFile' = IF res.wrote THEN SaveData(res.data) ELSE configFile
           /\ sessions' = [sessions EXCEPT ![i].roles = @ \o res.roles,
                                           ![i].open = res.raised,
                                           ![i].refused = res.raised]
           /\ Recorded(Call("callback",
                            [NoArgs EXCEPT !.guild_id = g, !.role_type = role_type],
                            IF res.raised THEN "RoleLimit" ELSE "None",
                            Len(res.roles)))
    /\ join' = join
    /\ UNCHANGED <<templateFile, issued, saved>>

SetupNext ==
    \/ \E g \in Guilds, t \in RoleTypes : SetupRoles(g, t)
    \/ \E i \in 1..MaxSessions, values \in Selections : RoleSelectCallback(i, values)
    \/ \E g \in Guilds, t \in RoleTypes, r \in RemoveIds : RemoveRole(g, t, r)

SetupInit ==
    /\ Constructed
    /\ callBound = MaxSetupCalls

\* the role-setup sessions of a run: their callbacks add roles, remove_role
\* makes room again
SetupSpec == SetupInit /\ [][SetupNext]_vars

-----------------------------------------------------------------------------
(* Properties *)

\* the caps as the specification states them
StatedMax(role_type) == IF role_type = "humans" THEN 5 ELSE 2

\* this step is a call of op
IsCall(op) == calls' = calls + 1 /\ last'.op = op

\* this step is add_role(g, role_type, r)
IsAdd(g, role_type, r) ==
    /\ IsCall("add_role")
    /\ last'.guild_id = g
    /\ last'.role_type = role_type
    /\ last'.role_id = r

NoDuplicates(s) == \A i, j \in 1..Len(s) : s[i] = s[j] => i = j

\* C1: in every reachable state the live humans list of every guild has at most
\* 5 entries and its live bots list at most 2.
C1_Capacity ==
    \A g \in Guilds :
        /\ Len(Roles(data, g, "humans")) <= 5
        /\ Len(Roles(data, g, "bots")) <= 2

\* both lists of guild "1" are full and an add_role has just been refused
C1_Witness ==
    /\ Len(Roles(data, "1", "humans")) = 5
    /\ Len(Roles(data, "1", "bots")) = 2
    /\ last.op = "add_role"
    /\ last.ret = "RoleLimit"

\* C2: add_role on a list that already has its maximum of entries (5 for humans,
\* 2 for bots) raises RoleLimit carrying that maximum and changes neither the
\* in-memory lists nor the configuration file.
C2_LimitExceeded ==
    [][\A g \in Guilds, t \in RoleTypes, r \in RoleIds :
          (IsAdd(g, t, r) /\ Len(Roles(data, g, t)) = StatedMax(t))
              => /\ last'.ret = "RoleLimit"
                 /\ last'.val = StatedMax(t)
                 /\ Roles(data', g, t) = Roles(data, g, t)
                 /\ data' = data
                 /\ configFile' = configFile]_vars

\* guild "1" has humans 10,20,30,40,50 and adding 60 has just been refused with 5
C2_Witness ==
    /\ last.op = "add_role"
    /\ last.guild_id = "1"
    /\ last.role_type = "humans"
    /\ last.role_id = 60
    /\ last.ret = "RoleLimit"
    /\ last.val = 5
    /\ Roles(data, "1", "humans") = <<10, 20, 30, 40, 50>>
    /\ JsonLoad(configFile)["1"].humans = <<10, 20, 30, 40, 50>>

\* C3 as stated: whenever r is already in the list, add_role raises nothing, adds
\* no duplicate and writes nothing.
C3_Original ==
    [][\A g \in Guilds, t \in RoleTypes, r \in RoleIds :
          (IsAdd(g, t, r) /\ Contains(Roles(data, g, t), r))
              => /\ last'.ret = "None"
                 /\ Roles(data', g, t) = Roles(data, g, t)
                 /\ configFile' = configFile]_vars

\* C3 amended: when r is already in the list, add_role adds no duplicate and
\* writes nothing; it returns silently when the list is below its maximum and
\* raises RoleLimit when the list is full.
C3_PresentRole ==
    [][\A g \in Guilds, t \in RoleTypes, r \in RoleIds :
          (IsAdd(g, t, r) /\ Contains(Roles(data, g, t), r))
              => /\ Roles(data', g, t) = Roles(data, g, t)
                 /\ NoDuplicates(Roles(data', g, t))
                 /\ configFile' = configFile
                 /\ last'.ret = IF Len(Roles(data, g, t)) < StatedMax(t)
                                THEN "None"
                                ELSE "RoleLimit"]_vars

\* add_role of 50 has returned silently on the list 50,60 of guild "2" (an
\* appended 50 would stand last)
C3_Witness ==
    /\ last.op = "add_role"
    /\ last.guild_id = "2"
    /\ last.role_type = "humans"
    /\ last.role_id = 50
    /\ last.ret = "None"
    /\ Roles(data, "2", "humans") = <<50, 60>>

\* C4: an add_role that repeats the call made directly before it (same guild,
\* category and role) leaves the list as the first call left it, whatever either
\* call returned or raised.
C4_AddTwice ==
    [][\A g \in Guilds, t \in RoleTypes, r \in RoleIds :
          (/\ IsAdd(g, t, r)
           /\ last.op = "add_role"
           /\ last.guild_id = g
           /\ last.role_type = t
           /\ last.role_id = r)
              => Roles(data', g, t) = Roles(data, g, t)]_vars

\* add_role of 50 has been called twice in a row, as the first two calls of the
\* run, on the humans of guild "2", both times returning silently: the first
\* call appended 50
C4_Witness ==
    /\ again
    /\ calls = 2
    /\ last.op = "add_role"
    /\ last.guild_id = "2"
    /\ last.role_type = "humans"
    /\ last.role_id = 50
    /\ last.ret = "None"
    /\ Roles(data, "2", "humans") = <<50>>

\* C5: in every reachable state no role id occurs twice within one live list;
\* the same id may stand in both lists of a guild.
C5_Unique ==
    \A g \in Guilds, t \in RoleTypes : NoDuplicates(Roles(data, g, t))

\* role 50 has just been added to the bots of a guild whose humans hold it too
C5_Witness ==
    /\ last.op = "add_role"
    /\ last.role_type = "bots"
    /\ last.role_id = 50
    /\ last.ret = "None"
    /\ Contains(Roles(data, last.guild_id, "humans"), 50)
    /\ Contains(Roles(data, last.guild_id, "bots"), 50)
    /\ NoDuplicates(Roles(data, last.guild_id, "bots"))

\* C6: after reset_guild(g) both lists of g read empty and the configuration
\* file has no entry for g; a reset that found an entry has rewritten the file
\* from the remaining data.
C6_Reset ==
    [][\A g \in Guilds :
          (IsCall("reset_guild") /\ last'.guild_id = g)
              => /\ Roles(data', g, "humans") = <<>>
                 /\ Roles(data', g, "bots") = <<>>
                 /\ g \notin DOMAIN data'
                 /\ (configFile'.exists => g \notin DOMAIN JsonLoad(configFile'))
                 /\ (g \in DOMAIN data =>
                        /\ configFile'.exists
                        /\ JsonLoad(configFile') = data')]_vars

\* the first call of a run that found roles for guild "1" was reset_guild("1"):
\* the rewritten file is the empty document
C6_Witness ==
    /\ calls = 1
    /\ last.op = "reset_guild"
    /\ last.guild_id = "1"
    /\ templateFile.exists
    /\ configFile = JsonDump(EmptyMap)
    /\ data = EmptyMap

\* every template id a call of the model can name or return
AllTemplateIds == 1..(BaseTemplateCount + MaxCalls)

\* C7: a template that save_template returned an id for, and that has not been
\* deleted, stays in its guild's catalog with exactly the lists that were live
\* at the save, whatever add_role, remove_role, reset_guild, load_template and
\* save_template calls follow; load_template of it returns True and leaves the
\* guild's live lists equal to those captured lists.
C7_RoundTrip ==
    /\ \A id \in DOMAIN saved :
          /\ templateFile.exists
          /\ saved[id].guild_id \in DOMAIN JsonLoad(templateFile)
          /\ id \in DOMAIN JsonLoad(templateFile)[saved[id].guild_id]
          /\ JsonLoad(templateFile)[saved[id].guild_id][id].humans = saved[id].humans
          /\ JsonLoad(templateFile)[saved[id].guild_id][id].bots = saved[id].bots
    /\ (/\ last.op = "load_template"
        /\ last.template_id \in DOMAIN saved
        /\ saved[last.template_id].guild_id = last.guild_id)
           => /\ last.ret = "True"
              /\ Roles(data, last.guild_id, "humans") = saved[last.template_id].humans
              /\ Roles(data, last.guild_id, "bots") = saved[last.template_id].bots

\* the template saved in this run from the lists 10,20,30,40,50 / 10 has been
\* loaded back, by the fourth call, into live lists that equal them
C7_Witness ==
    /\ calls = 4
    /\ last.op = "load_template"
    /\ last.guild_id = "1"
    /\ last.template_id = BaseTemplateCount + 1
    /\ last.ret = "True"
    /\ (BaseTemplateCount + 1) \in DOMAIN saved
    /\ saved[BaseTemplateCount + 1].humans = <<10, 20, 30, 40, 50>>
    /\ Roles(data, "1", "humans") = <<10, 20, 30, 40, 50>>
    /\ Roles(data, "1", "bots") = <<10>>
    /\ JsonLoad(configFile)["1"].humans = <<10, 20, 30, 40, 50>>

CatalogSize(file, g) == Cardinality(DOMAIN Catalog(file, g))

\* C8: no guild's catalog ever holds more than 10 templates, and save_template
\* for a guild that holds 10 returns None and leaves the template file as it was.
C8_TemplateCap ==
    /\ [](\A g \in Guilds : CatalogSize(templateFile, g) <= 10)
    /\ [][\A g \in Guilds :
             (/\ IsCall("save_template")
              /\ last'.guild_id = g
              /\ CatalogSize(templateFile, g) = 10)
                 => /\ last'.ret = "None"
                    /\ templateFile' = templateFile
                    /\ CatalogSize(templateFile', g) = 10]_vars

\* save_template for guild "1" has just returned None on a catalog of 10
C8_Witness ==
    /\ last.op = "save_template"
    /\ last.guild_id = "1"
    /\ last.ret = "None"
    /\ CatalogSize(templateFile, "1") = 10

\* C9: delete_template(g, id) with id not in g's catalog returns False and leaves
\* the template file unchanged; with id in g's catalog it returns True, removes
\* that entry and leaves every other template of every guild as it was.
C9_Delete ==
    [][\A g \in Guilds, id \in AllTemplateIds :
          (IsCall("delete_template") /\ last'.guild_id = g /\ last'.template_id = id)
              => IF id \notin DOMAIN Catalog(templateFile, g)
                 THEN /\ last'.ret = "False"
                      /\ templateFile' = templateFile
                 ELSE /\ last'.ret = "True"
                      /\ id \notin DOMAIN Catalog(templateFile', g)
                      /\ \A h \in Guilds :
                            /\ DOMAIN Catalog(templateFile', h) =
                                   IF h = g
                                   THEN DOMAIN Catalog(templateFile, h) \ {id}
                                   ELSE DOMAIN Catalog(templateFile, h)
                            /\ \A k \in DOMAIN Catalog(templateFile', h) :
                                   Catalog(templateFile', h)[k] =
                                       Catalog(templateFile, h)[k]]_vars

\* after template 1 of guild "1" was deleted, delete_template for guild "2" of a
\* template that guild "1" holds has returned False
C9_Witness ==
    /\ last.op = "delete_template"
    /\ last.guild_id = "2"
    /\ last.ret = "False"
    /\ last.template_id \in DOMAIN Catalog(templateFile, "1")
    /\ 1 \notin DOMAIN Catalog(templateFile, "1")
    /\ CatalogSize(templateFile, "1") = BaseTemplateCount

\* C10: load_template(g, id) with id not in g's catalog returns False and leaves
\* the live lists of every guild and the configuration file unchanged.
C10_LoadUnknown ==
    [][\A g \in Guilds, id \in AllTemplateIds :
          (/\ IsCall("load_template")
           /\ last'.guild_id = g
           /\ last'.template_id = id
           /\ id \notin DOMAIN Catalog(templateFile, g))
              => /\ last'.ret = "False"
                 /\ \A t \in RoleTypes : Roles(data', g, t) = Roles(data, g, t)
                 /\ data' = data
                 /\ configFile' = configFile]_vars

\* load_template for guild "2" of a template held only by guild "1" has
\* returned False, guild "2" having a role of its own
C10_Witness ==
    /\ last.op = "load_template"
    /\ last.guild_id = "2"
    /\ last.ret = "False"
    /\ last.template_id \in DOMAIN Catalog(templateFile, "1")
    /\ last.template_id \notin DOMAIN Catalog(templateFile, "2")
    /\ Roles(data, "2", "humans") = <<50>>

\* the operations that take a guild and may change state
GuildOps ==
    {"add_role", "remove_role", "reset_guild",
     "save_template", "load_template", "delete_template"}

\* C11: a call of add_role, remove_role, reset_guild, save_template,
\* load_template or delete_template for guild g, whatever it returns, leaves the
\* lists get_roles gives and the entries list_templates gives unchanged for
\* every other guild.
C11_Isolation ==
    [][\A g \in Guilds :
          (calls' = calls + 1 /\ last'.op \in GuildOps /\ last'.guild_id = g)
              => \A h \in Guilds \ {g} :
                    /\ \A t \in RoleTypes : Roles(data', h, t) = Roles(data, h, t)
                    /\ ListedTemplates(templateFile', h) =
                           ListedTemplates(templateFile, h)]_vars

\* a template of guild "1" has just been deleted while guild "2" has a role and
\* a template of its own
C11_Witness ==
    /\ last.op = "delete_template"
    /\ last.guild_id = "1"
    /\ last.ret = "True"
    /\ Roles(data, "2", "humans") = <<50>>
    /\ Cardinality(ListedTemplates(templateFile, "2")) = 1

\* C12: in every reachable state the configuration file, loaded by load_data at
\* a restart, gives for every guild and category the list get_roles gives now.
C12_Durable ==
    \A g \in Guilds, t \in RoleTypes :
        Roles(LoadedData(configFile), g, t) = Roles(data, g, t)

\* the process has restarted after roles were added for guild "2", and still
\* has them
C12_Witness ==
    /\ last.op = "load_data"
    /\ calls = 3
    /\ Roles(data, "2", "humans") = <<50, 60>>
    /\ "2" \in DOMAIN data

\* what get_roles, check_role_limit and list_templates answer, and the files
SameAnswers ==
    /\ \A h \in Guilds, u \in RoleTypes : Roles(data', h, u) = Roles(data, h, u)
    /\ \A h \in Guilds : ListedTemplates(templateFile', h) = ListedTemplates(templateFile, h)
    /\ configFile' = configFile
    /\ templateFile' = templateFile

\* C16: check_role_limit returns (len >= max, max) with max 5 for humans and 2
\* for bots, get_roles returns the list (empty for a guild never seen); neither
\* raises, and neither changes what later get_roles, check_role_limit and
\* list_templates calls answer, nor the two files.
C16_Reads ==
    [][\A g \in Guilds, t \in RoleTypes :
          /\ (IsCall("check_role_limit") /\ last'.guild_id = g /\ last'.role_type = t)
                => /\ last'.ret = IF Len(Roles(data, g, t)) >= StatedMax(t)
                                  THEN "True"
                                  ELSE "False"
                   /\ last'.val = StatedMax(t)
                   /\ SameAnswers
          /\ (IsCall("get_roles") /\ last'.guild_id = g /\ last'.role_type = t)
                => /\ last'.ret = "list"
                   /\ (g \notin DOMAIN data => data'[g][t] = <<>>)
                   /\ SameAnswers]_vars

\* get_roles for guild "2", never seen before, was the first call of a run: the
\* guild now has an empty entry in memory and none in the file
C16_Witness ==
    /\ calls = 1
    /\ last.op = "get_roles"
    /\ last.guild_id = "2"
    /\ data["2"] = DefaultEntry
    /\ "2" \notin DOMAIN LoadedData(configFile)

\* the entries save_template calls have made for guild g and no delete_template
\* has removed
SavedEntries(g) ==
    {[id |-> id, name |-> saved[id].name, humans |-> saved[id].humans,
      bots |-> saved[id].bots] : id \in {i \in DOMAIN saved : saved[i].guild_id = g}}

\* C17: list_templates(g) gives exactly one entry for each template saved for g
\* and not deleted since, with the id its save_template returned, the name given
\* and the lists that were live at that call; a save_template that returns an id
\* leaves the live lists as they were.
C17_Listing ==
    /\ [](\A g \in Guilds : ListedTemplates(templateFile, g) = SavedEntries(g))
    /\ [][(IsCall("save_template") /\ last'.ret = "id")
             => /\ last'.val \in DOMAIN saved'
                /\ last'.val \notin DOMAIN saved
                /\ saved'[last'.val].guild_id = last'.guild_id
                /\ saved'[last'.val].name = last'.name
                /\ \A h \in Guilds, t \in RoleTypes :
                       Roles(data', h, t) = Roles(data, h, t)]_vars

\* list_templates for guild "2" gives the one template saved when its humans
\* were 50, after 50 was removed again
C17_Witness ==
    /\ last.op = "list_templates"
    /\ last.guild_id = "2"
    /\ ListedTemplates(templateFile, "2") =
           {[id |-> issued, name |-> "m", humans |-> <<50>>, bots |-> <<>>]}
    /\ Roles(data, "2", "humans") = <<>>

\* the other category of a guild's entry
Other(role_type) ==
    IF role_type = "humans" THEN "bots" ELSE "humans"

\* C20: add_role(g, t, r) with r absent and the list below its cap returns
\* None, the new list is the old one with r appended at the end, the
\* configuration file has been rewritten with the whole new data, and the
\* other category of g is unchanged.
C20_Append ==
    [][\A g \in Guilds, t \in RoleTypes, r \in RoleIds :
          (/\ IsAdd(g, t, r)
           /\ ~Contains(Roles(data, g, t), r)
           /\ Len(Roles(data, g, t)) < StatedMax(t))
              => /\ last'.ret = "None"
                 /\ Roles(data', g, t) = Append(Roles(data, g, t), r)
                 /\ Roles(data', g, Other(t)) = Roles(data, g, Other(t))
                 /\ configFile'.exists
                 /\ JsonLoad(configFile') = data'
                 /\ JsonLoad(configFile')[g][t] = Append(Roles(data, g, t), r)]_vars

\* 50 has been added to the four humans of guild "1" after 60 was added to its
\* bots: the humans are in insertion order, on disk as in memory
C20_Witness ==
    /\ last.op = "add_role"
    /\ last.ret = "None"
    /\ last.role_id = 50
    /\ Roles(data, "1", "humans") = <<10, 20, 30, 40, 50>>
    /\ Roles(data, "1", "bots") = <<10, 60>>
    /\ JsonLoad(configFile) = data

\* the operations that rewrite the template file; the others rewrite the
\* configuration file
TemplateWriters == {"save_template", "delete_template"}

\* C13: when the process stops during a rewrite of the configuration file or of
\* the template file, the file it leaves is a complete document (the one
\* before the write or the one after it), never an empty or partial one.
C13_Atomic ==
    [][(running /\ ~running')
          => IF last'.op \in TemplateWriters
             THEN Parses(templateFile') /\ configFile' = configFile
             ELSE Parses(configFile') /\ templateFile' = templateFile]_vars

\* the result a call gives when it succeeds
Success == {"None", "True", "id"}

\* C14: add_role, remove_role, reset_guild, load_template, save_template and
\* delete_template return their success result only with the file holding the
\* new document: when the write fails the call raises instead. A missing file
\* is read as empty (load_data, list_templates, load_template, delete_template,
\* save_template) without an error.
C14_WriteFailure ==
    [][/\ \A g \in Guilds, t \in RoleTypes, r \in RoleIds :
             (IsAdd(g, t, r) /\ last'.ret \in Success /\ ~Contains(Roles(data, g, t), r))
                 => configFile' = JsonDump(data') /\ Contains(Roles(data', g, t), r)
       /\ \A g \in Guilds, t \in RoleTypes :
             (/\ IsCall("remove_role")
              /\ last'.guild_id = g
              /\ last'.role_type = t
              /\ last'.ret \in Success
              /\ Contains(Roles(data, g, t), last'.role_id))
                 => configFile' = JsonDump(data')
       /\ (IsCall("reset_guild") /\ last'.ret \in Success /\ last'.guild_id \in DOMAIN data)
             => configFile' = JsonDump(data')
       /\ (IsCall("load_template") /\ last'.ret = "True")
             => configFile' = JsonDump(data')
       /\ (IsCall("save_template") /\ last'.ret = "id")
             => /\ Parses(templateFile')
                /\ last'.val \in DOMAIN Catalog(templateFile', last'.guild_id)
       /\ (IsCall("delete_template") /\ last'.ret = "True")
             => /\ Parses(templateFile')
                /\ templateFile'.exists
                /\ last'.template_id \notin DOMAIN Catalog(templateFile', last'.guild_id)
       /\ \A op \in GuildOps :
             (/\ IsCall(op)
              /\ \/ configFile' # configFile /\ configFile' # JsonDump(data')
                 \/ templateFile' # templateFile /\ ~Parses(templateFile'))
                 => last'.ret \notin Success
       /\ (IsCall("load_data") /\ ~configFile.exists)
             => last'.ret = "None" /\ data' = EmptyMap
       /\ (\E op \in TemplateReaders \ {"save_template"} :
                IsCall(op) /\ ~templateFile.exists)
             => last'.ret \in {"False", "list"}
       /\ (IsCall("save_template") /\ ~templateFile.exists)
             => last'.ret \in {"id", "OSError", "stopped"}]_vars

\* load_template of a known template has raised OSError after open truncated
\* the configuration file
C14_Witness ==
    /\ last.op = "load_template"
    /\ last.ret = "OSError"
    /\ running
    /\ configFile = Torn
    /\ Known(templateFile, last.guild_id, last.template_id)

\* the roles the handler has tried to give the member, in the order tried
Attempted(j) == [i \in 1..Len(j.log) |-> j.log[i].role]

\* the roles of the list the handler was given that the guild still has
Existing(j) == SelectSeq(j.start, LAMBDA r : r \notin j.gone)

IsPrefix(s, t) == Len(s) <= Len(t) /\ s = SubSeq(t, 1, Len(s))

\* C15: the handler of a member joining guild g iterates the list get_roles
\* gives for "bots" when the member is a bot and for "humans" otherwise; unless
\* that list is changed while it runs, it tries the roles the guild still has
\* in list order, goes on after an attempt that raised HTTPException and after
\* a role the guild no longer has, and it ends having tried each of them.
C15_Join ==
    /\ [](join.phase # "idle"
             => join.role_type = IF join.bot THEN "bots" ELSE "humans")
    /\ []((join.phase = "awaiting" /\ ~join.disturbed)
             => /\ IsPrefix(Append(Attempted(join), join.cur), Existing(join))
                /\ join.cur \notin join.gone)
    /\ []((join.phase = "done" /\ ~join.disturbed)
             => Attempted(join) = Existing(join))
    /\ (join.phase = "awaiting") ~> (join.phase = "done")

\* a human joined guild "1", whose humans are 10, 20, 30, 40 and which has lost
\* role 20: the attempt of 10 raised HTTPException, and 30 and 40 were tried
\* after it
C15_Witness ==
    /\ join.phase = "done"
    /\ ~join.bot
    /\ join.start = <<10, 20, 30, 40>>
    /\ join.gone = {20}
    /\ join.log = <<[role |-> 10, outcome |-> "HTTPException"],
                    [role |-> 30, outcome |-> "ok"],
                    [role |-> 40, outcome |-> "ok"]>>

\* C19: when the handler has ended, every role that was in the list at its
\* start, that the guild still has and that no remove_role removed while it
\* ran, has been tried for the member, whatever add_role, remove_role,
\* reset_guild and load_template calls ran while it was suspended.
C19_NoSkip ==
    join.phase = "done"
        => \A r \in Range(join.start) \ (join.removed \cup join.gone) :
               r \in Range(Attempted(join))

\* C18: whatever sessions setup_roles has opened and in whatever order their
\* callbacks have run, no list has more than its cap (5 humans, 2 bots), and a
\* session was opened only on a list below its cap and its callback, refused by
\* the add_role that finds the list full, leaves the session open.
C18_NoRace ==
    /\ \A g \in Guilds, t \in RoleTypes : Len(Roles(data, g, t)) <= StatedMax(t)
    /\ \A i \in DOMAIN sessions :
           /\ sessions[i].max_roles = StatedMax(sessions[i].role_type)
           /\ sessions[i].seen < StatedMax(sessions[i].role_type)
           /\ sessions[i].refused => sessions[i].open

\* two sessions for the humans of guild "1" both found 4 of 5 roles in
\* setup_roles; the callback of the first added one role, the callback of the
\* second was refused and the list has 5 roles
C18_Witness ==
    /\ Len(sessions) = 2
    /\ \A i \in {1, 2} :
           /\ sessions[i].guild_id = "1"
           /\ sessions[i].role_type = "humans"
           /\ sessions[i].seen = 4
    /\ sessions[1].roles = <<50>>
    /\ sessions[2].refused
    /\ sessions[2].roles = <<>>
    /\ last.op = "callback"
    /\ last.ret = "RoleLimit"
    /\ Roles(data, "1", "humans") = <<10, 20, 30, 40, 50>>

\* C21: remove_role(g, t, r) returns None; with r in the list, the new list is
\* the old one without r, the other roles in their order, and the
\* configuration file is rewritten with the new data; with r absent, no list
\* changes and nothing is written. An add_role of a new role that follows a
\* remove_role which left the list one below its cap succeeds.
C21_Remove ==
    [][\A g \in Guilds, t \in RoleTypes :
          /\ (IsCall("remove_role") /\ last'.guild_id = g /\ last'.role_type = t)
                => /\ last'.ret = "None"
                   /\ \A h \in Guilds, u \in RoleTypes :
                          <<h, u>> # <<g, t>> => Roles(data', h, u) = Roles(data, h, u)
                   /\ IF Contains(Roles(data, g, t), last'.role_id)
                      THEN /\ Roles(data', g, t) =
                                  SelectSeq(Roles(data, g, t),
                                            LAMBDA x : x # last'.role_id)
                           /\ Len(Roles(data', g, t)) = Len(Roles(data, g, t)) - 1
                           /\ configFile' = JsonDump(data')
                      ELSE /\ Roles(data', g, t) = Roles(data, g, t)
                           /\ configFile' = configFile
          /\ \A r \in RoleIds :
                (/\ IsAdd(g, t, r)
                 /\ last.op = "remove_role"
                 /\ last.guild_id = g
                 /\ last.role_type = t
                 /\ Len(Roles(data, g, t)) = StatedMax(t) - 1
                 /\ ~Contains(Roles(data, g, t), r))
                    => /\ last'.ret = "None"
                       /\ Roles(data', g, t) = Append(Roles(data, g, t), r)]_vars

\* 10 was removed from the head of the humans 10,20,30,40,50 of guild "1", a
\* full list: the others keep their order and the file holds the new list
C21_Witness ==
    /\ last.op = "remove_role"
    /\ last.guild_id = "1"
    /\ last.role_type = "humans"
    /\ last.role_id = 10
    /\ calls = 2
    /\ Roles(data, "1", "humans") = <<20, 30, 40, 50>>
    /\ configFile = JsonDump(data)

\* the operations that change the live lists and rewrite the configuration file
ConfigWriters == {"add_role", "remove_role", "reset_guild", "load_template"}

\* C22: an add_role, remove_role, reset_guild or load_template that raises
\* OSError from its write leaves every live list as it was before the call.
C22_NoEffect ==
    [][(\E op \in ConfigWriters : IsCall(op) /\ last'.ret = "OSError")
          => \A g \in Guilds, t \in RoleTypes :
                 Roles(data', g, t) = Roles(data, g, t)]_vars

====
